---- MODULE Spec2Model ----
(***************************************************************************)
(* Verification model of lil-bank-buddy's analytic core                    *)
(* (src/src/core/analysis.py): the settlement detector, the two expense    *)
(* splits and the transaction store they read.                             *)
(***************************************************************************)
EXTENDS Integers, Sequences, FiniteSets, TLC

(***************************************************************************)
(* Natural numbers of arbitrary size, as little-endian sequences of limbs  *)
(* in base 2^15 without leading zero limbs (zero is the empty sequence).   *)
(* They carry the 53-bit significands of Python floats.                    *)
(***************************************************************************)
LimbBase == 32768

RECURSIVE BigTrim(_)
BigTrim(a) ==
    IF a = <<>> THEN <<>>
    ELSE IF a[Len(a)] = 0 THEN BigTrim(SubSeq(a, 1, Len(a) - 1))
    ELSE a

BigFromInt(n) ==
    BigTrim(<<n % LimbBase, (n \div LimbBase) % LimbBase, n \div (LimbBase * LimbBase)>>)

RECURSIVE BigMulSmallC(_, _, _)
BigMulSmallC(a, k, carry) ==
    IF a = <<>> THEN (IF carry = 0 THEN <<>> ELSE <<carry>>)
    ELSE LET mv == Head(a) * k + carry
         IN  <<mv % LimbBase>> \o BigMulSmallC(Tail(a), k, mv \div LimbBase)

\* a * k for 0 <= k < 2^15
BigMulSmall(a, k) == BigTrim(BigMulSmallC(a, k, 0))

RECURSIVE BigAddC(_, _, _)
BigAddC(a, b, carry) ==
    IF a = <<>> /\ b = <<>> THEN (IF carry = 0 THEN <<>> ELSE <<carry>>)
    ELSE LET da == IF a = <<>> THEN 0 ELSE Head(a)
             db == IF b = <<>> THEN 0 ELSE Head(b)
             v  == da + db + carry
         IN  <<v % LimbBase>>
             \o BigAddC(IF a = <<>> THEN <<>> ELSE Tail(a),
                        IF b = <<>> THEN <<>> ELSE Tail(b), v \div LimbBase)

BigAdd(a, b) == BigTrim(BigAddC(a, b, 0))

\* a * 2^(15 n)
BigShiftLimbs(a, n) ==
    IF a = <<>> THEN <<>> ELSE [i \in 1..n |-> 0] \o a

RECURSIVE BigMul(_, _)
BigMul(a, b) ==
    IF b = <<>> \/ a = <<>> THEN <<>>
    ELSE BigAdd(BigMulSmall(a, Head(b)), BigShiftLimbs(BigMul(a, Tail(b)), 1))

\* quotient and remainder of a by k, 0 < k < 2^15; limbs taken from the top
RECURSIVE BigDivSmallR(_, _, _)
BigDivSmallR(a, k, i) ==
    IF i > Len(a) THEN [q |-> <<>>, r |-> 0]
    ELSE LET top == BigDivSmallR(a, k, i + 1)
             dv  == top.r * LimbBase + a[i]
         IN  [q |-> <<dv \div k>> \o top.q, r |-> dv % k]

BigDivSmall(a, k) ==
    LET qr == BigDivSmallR(a, k, 1) IN [q |-> BigTrim(qr.q), r |-> qr.r]

RECURSIVE BitLenInt(_)
BitLenInt(n) == IF n = 0 THEN 0 ELSE 1 + BitLenInt(n \div 2)

BigBitLen(a) ==
    IF a = <<>> THEN 0 ELSE 15 * (Len(a) - 1) + BitLenInt(a[Len(a)])

BigIsOdd(a) == a # <<>> /\ a[1] % 2 = 1

LimbBits == 15

\* a * 2^n
BigShiftLeft(a, n) ==
    BigMulSmall(BigShiftLimbs(a, n \div LimbBits), 2 ^ (n % LimbBits))

\* floor(a / 2^n)
BigShiftRight(a, n) ==
    LET skip == n \div LimbBits
    IN  IF skip >= Len(a) THEN <<>>
        ELSE BigDivSmall(SubSeq(a, skip + 1, Len(a)), 2 ^ (n % LimbBits)).q

\* bit i of a (bit 0 is the lowest)
BigBit(a, i) ==
    LET limb == i \div LimbBits + 1
    IN  IF limb > Len(a) THEN 0 ELSE (a[limb] \div (2 ^ (i % LimbBits))) % 2

\* TRUE iff some bit of a below bit n is set
BigLowBitsSet(a, n) ==
    LET whole == n \div LimbBits
    IN  \/ \E i \in 1..whole : i <= Len(a) /\ a[i] # 0
        \/ whole < Len(a) /\ a[whole + 1] % (2 ^ (n % LimbBits)) # 0

RECURSIVE TrailingZerosInt(_)
TrailingZerosInt(n) == IF n % 2 = 1 THEN 0 ELSE 1 + TrailingZerosInt(n \div 2)

\* number of zero bits below the lowest set bit of a # 0
BigTrailingZeros(a) ==
    LET first == CHOOSE i \in 1..Len(a) : a[i] # 0 /\ \A j \in 1..(i - 1) : a[j] = 0
    IN  LimbBits * (first - 1) + TrailingZerosInt(a[first])

(***************************************************************************)
(* Python floats (IEEE 754 binary64, round to nearest, ties to even).  A   *)
(* finite float is [s, m, e] with value s * m * 2^e, s in {1,-1}, m a      *)
(* significand of at most 53 bits kept odd (or zero, with s = 1, e = 0),   *)
(* so that equal values have equal records.  Exponent range limits         *)
(* (overflow, subnormals) are not reached by the amounts modelled.         *)
(***************************************************************************)
Precision == 53

FZero == [s |-> 1, m |-> <<>>, e |-> 0]

FCanon(s, m, e) ==
    IF m = <<>> THEN FZero
    ELSE LET tz == BigTrailingZeros(m)
         IN  [s |-> s, m |-> BigShiftRight(m, tz), e |-> e + tz]

\* the float nearest to s * (m + f) * 2^e, 0 <= f < 1, f # 0 iff sticky:
\* the bits below the top Precision bits are dropped; the result is rounded
\* up when the highest dropped bit is set and either a lower bit (or f) is
\* non-zero or the kept significand is odd (ties to even)
FRound(s, m, e, sticky) ==
    LET drop == BigBitLen(m) - Precision
    IN  IF drop <= 0 THEN FCanon(s, m, e)
        ELSE LET kept == BigShiftRight(m, drop)
                 rnd  == BigBit(m, drop - 1)
                 low  == sticky \/ BigLowBitsSet(m, drop - 1)
                 up   == rnd = 1 /\ (low \/ BigIsOdd(kept))
             IN  FCanon(s, IF up THEN BigAdd(kept, <<1>>) ELSE kept, e + drop)

FAbsInt(n) == IF n < 0 THEN -n ELSE n

\* int -> float conversion, exact for |n| < 2^31
FFromInt(n) == FCanon(IF n < 0 THEN -1 ELSE 1, BigFromInt(FAbsInt(n)), 0)

DivScale == 64

\* p / k for integers p and 0 < k < 2^15 (Python true division of ints)
FDivInt(p, k) ==
    LET quo == BigDivSmall(BigShiftLeft(BigFromInt(FAbsInt(p)), DivScale), k)
    IN  FRound(IF p < 0 THEN -1 ELSE 1, quo.q, -DivScale, quo.r # 0)

FMul(x, y) == FRound(x.s * y.s, BigMul(x.m, y.m), x.e + y.e, FALSE)

\* x + y for operands of the same sign (or zero)
FAddSame(x, y) ==
    IF x.m = <<>> THEN y
    ELSE IF y.m = <<>> THEN x
    ELSE LET lo == IF x.e <= y.e THEN x ELSE y
             hi == IF x.e <= y.e THEN y ELSE x
         IN  FRound(x.s, BigAdd(lo.m, BigShiftLeft(hi.m, hi.e - lo.e)), lo.e, FALSE)

\* a < b, compared from the top limb down
BigLess(a, b) ==
    \/ Len(a) < Len(b)
    \/ /\ Len(a) = Len(b)
       /\ \E i \in 1..Len(a) : a[i] < b[i] /\ \A j \in (i + 1)..Len(a) : a[j] = b[j]

RECURSIVE BigSubC(_, _, _)
BigSubC(a, b, borrow) ==
    IF a = <<>> THEN <<>>
    ELSE LET db == IF b = <<>> THEN 0 ELSE Head(b)
             v  == Head(a) - db - borrow
         IN  <<v % LimbBase>>
             \o BigSubC(Tail(a), IF b = <<>> THEN <<>> ELSE Tail(b),
                        IF v < 0 THEN 1 ELSE 0)

\* a - b for a >= b
BigSub(a, b) == BigTrim(BigSubC(a, b, 0))

FNeg(x) == IF x.m = <<>> THEN x ELSE [x EXCEPT !.s = 0 - x.s]

FAbs(x) == [x EXCEPT !.s = 1]

\* x + y, correctly rounded; x + (-x) is 0.0
FAdd(x, y) ==
    IF x.m = <<>> \/ y.m = <<>> \/ x.s = y.s THEN FAddSame(x, y)
    ELSE LET e  == IF x.e <= y.e THEN x.e ELSE y.e
             xm == BigShiftLeft(x.m, x.e - e)
             ym == BigShiftLeft(y.m, y.e - e)
         IN  IF xm = ym THEN FZero
             ELSE IF BigLess(xm, ym) THEN FRound(y.s, BigSub(ym, xm), e, FALSE)
             ELSE FRound(x.s, BigSub(xm, ym), e, FALSE)

\* Series.sum() of floats: added up from 0.0 in row order
RECURSIVE FSumFrom(_, _)
FSumFrom(acc, xs) ==
    IF xs = <<>> THEN acc ELSE FSumFrom(FAdd(acc, Head(xs)), Tail(xs))

FSum(xs) == FSumFrom(FZero, xs)


(***************************************************************************)
(* Text.  A description is a sequence of one-character strings, so that    *)
(* the case-insensitive substring search of Series.str.contains can be     *)
(* carried out character by character.  A missing (NULL) description is    *)
(* the one-element sequence NullStr, whose element is not a character.     *)
(***************************************************************************)
NullStr == <<"<NULL>">>

UpperCase == {"A", "C", "D", "E", "G", "I", "M", "N", "O", "P", "R", "S", "T", "Y"}

ToLowerChar(c) ==
    IF c \notin UpperCase THEN c
    ELSE CASE c = "A" -> "a" [] c = "C" -> "c" [] c = "D" -> "d" [] c = "E" -> "e"
           [] c = "G" -> "g" [] c = "I" -> "i" [] c = "M" -> "m" [] c = "N" -> "n"
           [] c = "O" -> "o" [] c = "P" -> "p" [] c = "R" -> "r" [] c = "S" -> "s"
           [] c = "T" -> "t" [] c = "Y" -> "y"

ToLower(str) == [i \in 1..Len(str) |-> ToLowerChar(str[i])]

\* pat occurs in str as a contiguous run of characters
IsSubstring(pat, str) ==
    \E i \in 0..(Len(str) - Len(pat)) : SubSeq(str, i + 1, i + Len(pat)) = pat

\* Series.str.contains(pat1|pat2, case=False, na=False) on one value
StrContainsAny(str, pats) ==
    IF str = NullStr THEN FALSE
    ELSE \E pat \in pats : IsSubstring(ToLower(pat), ToLower(str))

PatCreditCardPayment == <<"C", "R", "E", "D", "I", "T", " ", "C", "A", "R", "D", " ", "P", "A", "Y", "M", "E", "N", "T">>
PatPayment == <<"P", "a", "y", "m", "e", "n", "t">>

\* the regular expression 'CREDIT CARD PAYMENT|Payment' of the settlement detector
SettlementPatterns == {PatCreditCardPayment, PatPayment}

(***************************************************************************)
(* Dates.  Time is counted in ticks of half a day.  A stored date is a     *)
(* tick >= 0, NULL (NullDate) or text that does not parse (BadDate).       *)
(* pd.to_datetime turns NULL into NaT; NaT compares false with everything  *)
(* and is skipped by min/max.  NoneDate is Python's None.                  *)
(***************************************************************************)
TicksPerDay == 2
NullDate == -1
BadDate == -2
NoneDate == -3
NaT == -4

SettlementWindowDays == 30
FallbackDays == 30

\* Timestamp.strftime('%Y-%m-%d'): the calendar day, time of day dropped
Strftime(t) == "day-" \o ToString(t \div TicksPerDay)

NullCategory == "<NULL>"

(***************************************************************************)
(* Transactions and the rows an import can bring.                          *)
(***************************************************************************)
DescCardPayment == <<"C", "R", "E", "D", "I", "T", " ", "C", "A", "R", "D", " ", "P", "A", "Y", "M", "E", "N", "T">>
DescOnlinePayment == <<"O", "n", "l", "i", "n", "e", " ", "p", "a", "y", "m", "e", "n", "t">>
DescGroceries == <<"G", "r", "o", "c", "e", "r", "i", "e", "s">>

Row(d, desc, cat, amt) == [date |-> d, description |-> desc, category |-> cat, amount |-> amt]

\* rows of the imported CSV exports: settlement payments (two within 30
\* days of each other, one undated), purchases on and after a payment date,
\* a future-dated pending row, charges with and without category, a zero
\* amount under a payment description and a date that does not parse
RowPool ==
    { Row(100, DescCardPayment, NullCategory, -500),
      Row(140, DescOnlinePayment, "Bills", -75),
      Row(NullDate, DescCardPayment, NullCategory, -3),
      Row(140, DescGroceries, "Food", -75),
      Row(170, DescGroceries, "Gas", -3),
      Row(210, NullStr, NullCategory, -5),
      Row(170, DescGroceries, "Food", 3),
      Row(100, NullStr, NullCategory, 5),
      Row(180, DescGroceries, "Gas", 4),
      Row(170, DescOnlinePayment, "Food", 0),
      Row(BadDate, DescGroceries, "Food", -3) }

Accounts == {"team_beeb_cc", "team_beeb_checking"}
Percentages == {0, 30, 50, 100}
Clock == {200, 201}

MaxTxns == 2

(***************************************************************************)
(* The parts of pandas the analysis uses.                                  *)
(***************************************************************************)
RECURSIVE SeqSum(_)
SeqSum(ns) == IF ns = <<>> THEN 0 ELSE Head(ns) + SeqSum(Tail(ns))

SumAmountUnsigned(df) == SeqSum([i \in 1..Len(df) |-> FAbsInt(df[i].amount)])

\* Series.sum() of the amount column
SumAmount(df) == SeqSum([i \in 1..Len(df) |-> df[i].amount])

\* pd.to_datetime on one stored value: NULL becomes NaT
ToDatetime(d) == IF d = NullDate THEN NaT ELSE d

\* pd.to_datetime(df['date']) (errors='raise') on a frame without unparseable text
ParseDates(df) == [i \in 1..Len(df) |-> [df[i] EXCEPT !.date = ToDatetime(df[i].date)]]

HasBadDate(df) == \E i \in 1..Len(df) : df[i].date = BadDate

ValidDates(df) == {df[i].date : i \in {j \in 1..Len(df) : df[j].date # NaT}}

\* Series.min() / Series.max() of the date column: NaT is skipped, and is
\* the answer when nothing else is there
DateMax(df) ==
    IF ValidDates(df) = {} THEN NaT
    ELSE CHOOSE d \in ValidDates(df) : \A o \in ValidDates(df) : d >= o

DateMinAsMax(df) == DateMax(df)

DateMin(df) ==
    IF ValidDates(df) = {} THEN NaT
    ELSE CHOOSE d \in ValidDates(df) : \A o \in ValidDates(df) : d <= o

\* r goes before row o in a descending date order with NaT last
DateBefore(r, o) == r.date # NaT /\ (o.date = NaT \/ r.date > o.date)

\* stable insertion of r into rows already sorted by date descending
RECURSIVE InsertByDateDesc(_, _)
InsertByDateDesc(sorted, r) ==
    IF sorted = <<>> THEN <<r>>
    ELSE IF DateBefore(r, Head(sorted)) THEN <<r>> \o sorted
    ELSE <<Head(sorted)>> \o InsertByDateDesc(Tail(sorted), r)

\* df.sort_values('date', ascending=False): NaT last, ties in frame order
RECURSIVE SortValuesDateDesc(_)
SortValuesDateDesc(df) ==
    IF df = <<>> THEN <<>>
    ELSE InsertByDateDesc(SortValuesDateDesc(SubSeq(df, 1, Len(df) - 1)), df[Len(df)])

\* Series.unique() of the category column: values in order of first appearance
RECURSIVE UniqueCategories(_)
UniqueCategories(df) ==
    IF df = <<>> THEN <<>>
    ELSE LET before == UniqueCategories(SubSeq(df, 1, Len(df) - 1))
             cat    == df[Len(df)].category
         IN  IF \E i \in 1..Len(before) : before[i] = cat THEN before
             ELSE Append(before, cat)

IsExpenseNonNegative(r) == r.amount >= 0

IsExpensePositive(r) == r.amount > 0
IsNegative(r) == r.amount < 0

(***************************************************************************)
(* BankAnalyzer.find_last_settlement_date                                  *)
(***************************************************************************)
\* a detector pattern without the generic word "Payment"
IsCardPaymentOnly(r) ==
    r.amount < 0 /\ StrContainsAny(r.description, {PatCreditCardPayment})

IsSettlementCandidate(r) ==
    r.amount < 0 /\ StrContainsAny(r.description, SettlementPatterns)

\* payments[(date >= settlement_window_start) & (date <= most_recent_date)]
PaymentsInWindow(payments, most_recent_date) ==
    LET settlement_window_start ==
            IF most_recent_date = NaT THEN NaT
            ELSE most_recent_date - SettlementWindowDays * TicksPerDay
    IN  SelectSeq(payments,
                  LAMBDA r : /\ r.date # NaT
                             /\ most_recent_date # NaT
                             /\ r.date >= settlement_window_start
                             /\ r.date <= most_recent_date)

FindLastSettlementDateGated(df) ==
    LET payments == SelectSeq(df, IsSettlementCandidate)
    IN  IF Len(payments) = 0 THEN NoneDate
        ELSE LET by_date          == SortValuesDateDesc(payments)
                 most_recent_date == by_date[1].date
             IN  IF Len(PaymentsInWindow(by_date, most_recent_date)) >= 2
                 THEN most_recent_date
                 ELSE NoneDate

FindLastSettlementDate(df) ==
    LET payments == SelectSeq(df, IsSettlementCandidate)
    IN  IF Len(payments) = 0 THEN NoneDate
        ELSE LET by_date          == SortValuesDateDesc(payments)
                 most_recent_date == by_date[1].date
             IN  IF Len(PaymentsInWindow(by_date, most_recent_date)) >= 2
                 THEN most_recent_date
                 ELSE most_recent_date

\* a detector that takes the candidates out of the frame it was handed
SettlementDetectorRunInPlace(df) ==
    [date |-> FindLastSettlementDate(df),
     df |-> SelectSeq(df, LAMBDA r : ~IsSettlementCandidate(r))]

\* one call of find_last_settlement_date(df): the date it returns and the
\* caller's frame as the call leaves it; the candidates are selected into a
\* copy and sorted there, df itself is never written
SettlementDetectorRun(df) == [date |-> FindLastSettlementDate(df), df |-> df]

(***************************************************************************)
(* ExpenseSplitter: the percentage split and the category breakdown        *)
(***************************************************************************)
\* total * (person1_percentage / 100)
Person1Share(total, pct) == FMul(FFromInt(total), FDivInt(pct, 100))

Person2ShareOfSamePercentage(total, pct) == FMul(FFromInt(total), FDivInt(pct, 100))

\* total * ((100 - person1_percentage) / 100)
Person2Share(total, pct) == FMul(FFromInt(total), FDivInt(100 - pct, 100))

CategoryRows(expenses, cat) == SelectSeq(expenses, LAMBDA r : r.category = cat)

CategoryEntry(cat, total, pct) ==
    [category |-> cat, total_amount |-> total,
     person1_share |-> Person1Share(total, pct),
     person2_share |-> Person2Share(total, pct)]

\* stable insertion of entry x into entries sorted by total_amount descending
RECURSIVE InsertByTotalDesc(_, _)
InsertByTotalDesc(sorted, x) ==
    IF sorted = <<>> THEN <<x>>
    ELSE IF x.total_amount > Head(sorted).total_amount THEN <<x>> \o sorted
    ELSE <<Head(sorted)>> \o InsertByTotalDesc(Tail(sorted), x)

SortByTotalSkipped(entries) == entries

\* list.sort(key=lambda x: x['total_amount'], reverse=True)
RECURSIVE SortByTotalDesc(_)
SortByTotalDesc(entries) ==
    IF entries = <<>> THEN <<>>
    ELSE InsertByTotalDesc(SortByTotalDesc(SubSeq(entries, 1, Len(entries) - 1)),
                           entries[Len(entries)])

BreakdownCategoriesWithNull(expenses) == UniqueCategories(expenses)

\* the categories the loop does not skip (pd.isna(category): continue)
BreakdownCategories(expenses) ==
    SelectSeq(UniqueCategories(expenses), LAMBDA c : c # NullCategory)

\* category loop of calculate_current_balance_split, then the sort
BalanceCategorySplits(expenses, pct) ==
    LET cats == BreakdownCategories(expenses)
    IN  SortByTotalDesc([i \in 1..Len(cats) |->
            CategoryEntry(cats[i], SumAmount(CategoryRows(expenses, cats[i])), pct)])

\* category loop of calculate_expense_split, then the sort
ExpenseCategorySplits(expenses, pct) ==
    LET cats == BreakdownCategories(expenses)
    IN  SortByTotalDesc([i \in 1..Len(cats) |->
            CategoryEntry(cats[i], FAbsInt(SumAmount(CategoryRows(expenses, cats[i]))), pct)])

NoDateRange == <<"N/A", "N/A">>

Ok(op, value) == [status |-> "ok", op |-> op, value |-> value]
Failed(op, kind) == [status |-> "error", op |-> op, value |-> [error |-> kind]]

\* what calculate_current_balance_split returns for the rows read
CurrentBalanceSplitOf(rows, pct) ==
    LET df            == ParseDates(rows)
        total_balance == SumAmount(df)
        expenses      == SelectSeq(df, IsExpensePositive)
        credits       == SelectSeq(df, IsNegative)
    IN  IF HasBadDate(rows) THEN Failed("calculate_current_balance_split", "ValueError")
        ELSE IF Len(df) > 0 /\ DateMin(df) = NaT
        THEN Failed("calculate_current_balance_split", "ValueError")
        ELSE Ok("calculate_current_balance_split",
                [total_balance |-> total_balance,
                 total_expenses |-> IF Len(expenses) > 0 THEN SumAmount(expenses) ELSE 0,
                 total_payments_credits |->
                     IF Len(credits) > 0 THEN FAbsInt(SumAmount(credits)) ELSE 0,
                 person1_percentage |-> pct,
                 person2_percentage |-> 100 - pct,
                 person1_owes |-> Person1Share(total_balance, pct),
                 person2_owes |-> Person2Share(total_balance, pct),
                 category_breakdown |-> BalanceCategorySplits(expenses, pct),
                 num_expense_transactions |-> Len(expenses),
                 date_range |-> IF Len(df) > 0
                                THEN <<Strftime(DateMin(df)), Strftime(DateMax(df))>>
                                ELSE NoDateRange])

RowsFrom(df, d) == SelectSeq(df, LAMBDA r : r.date # NaT /\ d # NaT /\ r.date >= d)

\* df[df['date'] > last_settlement_date]
RowsAfter(df, d) == SelectSeq(df, LAMBDA r : r.date # NaT /\ d # NaT /\ r.date > d)

RowsStrictlySince(df, t) == SelectSeq(df, LAMBDA r : r.date # NaT /\ r.date > t)

\* df[df['date'] >= now - 30 days]
RowsSince(df, t) == SelectSeq(df, LAMBDA r : r.date # NaT /\ r.date >= t)

SinceSettlementInfo(d) == "Since last settlement on " \o Strftime(d)
FallbackInfo == "Last 30 days (no settlement pattern detected)"

\* the local variables of calculate_expense_split once the window is chosen
ExpenseSplitLocals(rows, now) ==
    CHOOSE loc \in
        { LET df   == run.df
              last_settlement_date == run.date
              recent == IF last_settlement_date # NoneDate
                        THEN RowsAfter(df, last_settlement_date)
                        ELSE RowsSince(df, now - FallbackDays * TicksPerDay)
          IN  [df |-> df,
               last_settlement_date |-> last_settlement_date,
               recent |-> recent,
               expenses |-> SelectSeq(recent, IsNegative)] :
          run \in {SettlementDetectorRun(SortValuesDateDesc(ParseDates(rows)))} } : TRUE

\* what calculate_expense_split returns for the rows read
ExpenseSplitOf(rows, pct, now) ==
    LET loc            == ExpenseSplitLocals(rows, now)
        total_expenses == FAbsInt(SumAmount(loc.expenses))
    IN  IF HasBadDate(rows) THEN Failed("calculate_expense_split", "ValueError")
        ELSE IF loc.last_settlement_date = NaT
        THEN Failed("calculate_expense_split", "ValueError")
        ELSE Ok("calculate_expense_split",
                [total_expenses |-> total_expenses,
                 person1_percentage |-> pct,
                 person2_percentage |-> 100 - pct,
                 person1_share |-> Person1Share(total_expenses, pct),
                 person2_share |-> Person2Share(total_expenses, pct),
                 category_breakdown |-> ExpenseCategorySplits(loc.expenses, pct),
                 num_expense_transactions |-> Len(loc.expenses),
                 settlement_info |-> IF loc.last_settlement_date # NoneDate
                                     THEN SinceSettlementInfo(loc.last_settlement_date)
                                     ELSE FallbackInfo,
                 date_range |-> IF Len(loc.expenses) > 0
                                THEN <<Strftime(DateMin(loc.expenses)),
                                       Strftime(DateMax(loc.expenses))>>
                                ELSE NoDateRange])

(***************************************************************************)
(* format_dollar and the date-quality utilities                            *)
(***************************************************************************)
\* format_dollar on a whole amount: "-$5.00", "$0.00"
FormatDollar(amount) ==
    IF amount < 0 THEN "-$" \o ToString(0 - amount) \o ".00"
    ELSE "$" \o ToString(amount) \o ".00"

\* format_dollar on nan, which max() and min() of an empty column are:
\* nan < 0 is false and f"${nan:.2f}" is "$nan"
FormatDollarNaN == "$nan"

AmountMax(df) ==
    CHOOSE a \in {df[i].amount : i \in 1..Len(df)} :
        \A i \in 1..Len(df) : a >= df[i].amount

AmountMin(df) ==
    CHOOSE a \in {df[i].amount : i \in 1..Len(df)} :
        \A i \in 1..Len(df) : a <= df[i].amount

\* pd.to_datetime(..., errors='coerce') on one stored value: NULL and text
\* that does not parse both become NaT
ToDatetimeCoerce(d) == IF d = NullDate \/ d = BadDate THEN NaT ELSE d

ParseDatesCoerce(df) ==
    [i \in 1..Len(df) |-> [df[i] EXCEPT !.date = ToDatetimeCoerce(df[i].date)]]

NearFutureDays == 7

\* df[df['date'] <= t]
\* a filter that lets the week after t through as well
RowsUpToWeekLater(df, t) ==
    SelectSeq(df, LAMBDA r : r.date # NaT /\ r.date <= t + NearFutureDays * TicksPerDay)

RowsUpTo(df, t) == SelectSeq(df, LAMBDA r : r.date # NaT /\ r.date <= t)

GetRealisticDateRangeUnguarded(df, include_near_future, today) ==
    LET filtered_df == IF include_near_future
                       THEN RowsUpTo(df, today + NearFutureDays * TicksPerDay)
                       ELSE RowsUpTo(df, today)
    IN  <<Strftime(DateMin(filtered_df)), Strftime(DateMax(filtered_df))>>

\* get_realistic_date_range(df, include_near_future) when the clock reads today
GetRealisticDateRange(df, include_near_future, today) ==
    LET future_cutoff == today + NearFutureDays * TicksPerDay
        filtered_df   == IF include_near_future THEN RowsUpTo(df, future_cutoff)
                         ELSE RowsUpTo(df, today)
    IN  IF Len(filtered_df) = 0 THEN NoDateRange
        ELSE <<Strftime(DateMin(filtered_df)), Strftime(DateMax(filtered_df))>>

\* DataFrame.head(n)
HeadRows(df, n) == SubSeq(df, 1, IF Len(df) < n THEN Len(df) ELSE n)

\* analyze_date_quality(df) when the clock reads today
\* a report whose near-future class starts at "now" itself
AnalyzeDateQualityOverlapping(df, today) ==
    LET future_cutoff == today + NearFutureDays * TicksPerDay
        historical    == RowsUpTo(df, today)
        near_future   == SelectSeq(df, LAMBDA r : /\ r.date # NaT
                                                  /\ r.date >= today
                                                  /\ r.date <= future_cutoff)
        far_future    == SelectSeq(df, LAMBDA r : r.date # NaT /\ r.date > future_cutoff)
        invalid_dates == SelectSeq(df, LAMBDA r : r.date = NaT)
        shown         == HeadRows(far_future, 5)
    IN  [total_transactions |-> Len(df),
         historical_count |-> Len(historical),
         near_future_count |-> Len(near_future),
         far_future_count |-> Len(far_future),
         invalid_dates_count |-> Len(invalid_dates),
         far_future_transactions |->
             [i \in 1..Len(shown) |-> [date |-> shown[i].date,
                                       description |-> shown[i].description,
                                       amount |-> shown[i].amount]],
         date_range_all |-> <<DateMin(df), DateMax(df)>>,
         date_range_historical |->
             IF Len(historical) > 0 THEN <<DateMin(historical), DateMax(historical)>>
             ELSE <<NoneDate, NoneDate>>]

AnalyzeDateQuality(df, today) ==
    LET future_cutoff == today + NearFutureDays * TicksPerDay
        historical    == RowsUpTo(df, today)
        near_future   == SelectSeq(df, LAMBDA r : /\ r.date # NaT
                                                  /\ r.date > today
                                                  /\ r.date <= future_cutoff)
        far_future    == SelectSeq(df, LAMBDA r : r.date # NaT /\ r.date > future_cutoff)
        invalid_dates == SelectSeq(df, LAMBDA r : r.date = NaT)
        shown         == HeadRows(far_future, 5)
    IN  [total_transactions |-> Len(df),
         historical_count |-> Len(historical),
         near_future_count |-> Len(near_future),
         far_future_count |-> Len(far_future),
         invalid_dates_count |-> Len(invalid_dates),
         far_future_transactions |->
             [i \in 1..Len(shown) |-> [date |-> shown[i].date,
                                       description |-> shown[i].description,
                                       amount |-> shown[i].amount]],
         date_range_all |-> <<DateMin(df), DateMax(df)>>,
         date_range_historical |->
             IF Len(historical) > 0 THEN <<DateMin(historical), DateMax(historical)>>
             ELSE <<NoneDate, NoneDate>>]

(***************************************************************************)
(* BankAnalyzer: account summary, recent activity, payment patterns        *)
(***************************************************************************)
\* the category names of RowPool in the order Python sorts strings
CategoryOrder == <<"Bills", "Food", "Gas">>

CategoryCount(df, cat) == Len(CategoryRows(df, cat))

\* df['category'].mode()[0] if not df['category'].isnull().all() else None:
\* mode() drops the nulls and lists the most frequent values sorted
MostFrequentCategory(df) ==
    IF \A i \in 1..Len(df) : df[i].category = NullCategory THEN NullCategory
    ELSE LET k == CHOOSE j \in 1..Len(CategoryOrder) :
                     /\ \A o \in 1..Len(CategoryOrder) :
                           CategoryCount(df, CategoryOrder[j])
                               >= CategoryCount(df, CategoryOrder[o])
                     /\ \A o \in 1..(j - 1) :
                           CategoryCount(df, CategoryOrder[o])
                               < CategoryCount(df, CategoryOrder[j])
         IN  CategoryOrder[k]

\* what get_account_summary returns for the rows read when the clock reads now
AccountSummaryOf(rows, now) ==
    LET df == ParseDatesCoerce(rows)
    IN  Ok("get_account_summary",
           [total_transactions |-> Len(df),
            total_amount |-> FormatDollar(SumAmount(df)),
            largest_transaction |->
                IF Len(df) = 0 THEN FormatDollarNaN ELSE FormatDollar(AmountMax(df)),
            smallest_transaction |->
                IF Len(df) = 0 THEN FormatDollarNaN ELSE FormatDollar(AmountMin(df)),
            date_range |-> GetRealisticDateRange(df, FALSE, now),
            most_frequent_category |-> MostFrequentCategory(df),
            data_quality |-> AnalyzeDateQuality(df, now)])

\* stable insertion of entry x into entries sorted by count descending
RECURSIVE InsertByCountDesc(_, _)
InsertByCountDesc(sorted, x) ==
    IF sorted = <<>> THEN <<x>>
    ELSE IF x.count > Head(sorted).count THEN <<x>> \o sorted
    ELSE <<Head(sorted)>> \o InsertByCountDesc(Tail(sorted), x)

RECURSIVE SortByCountDesc(_)
SortByCountDesc(entries) ==
    IF entries = <<>> THEN <<>>
    ELSE InsertByCountDesc(SortByCountDesc(SubSeq(entries, 1, Len(entries) - 1)),
                           entries[Len(entries)])

\* Series.value_counts() of the category column: nulls dropped, most
\* frequent first, equal counts in order of first appearance
ValueCounts(df) ==
    LET cats == BreakdownCategories(df)
    IN  SortByCountDesc([i \in 1..Len(cats) |->
            [category |-> cats[i], count |-> CategoryCount(df, cats[i])]])

\* what get_recent_activity returns for the rows read when the clock reads now
\* a recent-activity window that reaches one day further back
RecentActivityOfDayEarlier(rows, days, now) ==
    LET df     == ParseDates(rows)
        recent == RowsSince(df, now - (days + 1) * TicksPerDay)
    IN  IF HasBadDate(rows) THEN Failed("get_recent_activity", "ValueError")
        ELSE Ok("get_recent_activity",
                [num_transactions |-> Len(recent),
                 total_amount |-> FormatDollar(SumAmount(recent)),
                 top_categories |-> HeadRows(ValueCounts(recent), 3)])

RecentActivityOf(rows, days, now) ==
    LET df     == ParseDates(rows)
        recent == RowsSince(df, now - days * TicksPerDay)
    IN  IF HasBadDate(rows) THEN Failed("get_recent_activity", "ValueError")
        ELSE Ok("get_recent_activity",
                [num_transactions |-> Len(recent),
                 total_amount |-> FormatDollar(SumAmount(recent)),
                 top_categories |-> HeadRows(ValueCounts(recent), 3)])

\* (amount < 0) & description.str.contains('CREDIT CARD PAYMENT', case=False, na=False)
IsCreditCardPayment(r) ==
    r.amount < 0 /\ StrContainsAny(r.description, {PatCreditCardPayment})

RecentPaymentCount == 4

\* what analyze_payment_patterns returns for the rows read
PaymentPatternsOf(rows) ==
    LET df              == SortValuesDateDesc(ParseDates(rows))
        payments        == SelectSeq(df, IsCreditCardPayment)
        recent_payments == HeadRows(payments, RecentPaymentCount)
    IN  IF HasBadDate(rows) THEN Failed("analyze_payment_patterns", "ValueError")
        ELSE IF Len(payments) = 0
        THEN Ok("analyze_payment_patterns",
                [recent_payments |-> <<>>,
                 total_recent_payments |-> 0,
                 payment_count |-> 0])
        ELSE IF \E i \in 1..Len(recent_payments) : recent_payments[i].date = NaT
        THEN Failed("analyze_payment_patterns", "ValueError")
        ELSE Ok("analyze_payment_patterns",
                [recent_payments |->
                     [i \in 1..Len(recent_payments) |->
                         [date |-> Strftime(recent_payments[i].date),
                          amount |-> FAbsInt(recent_payments[i].amount),
                          description |-> recent_payments[i].description]],
                 total_recent_payments |-> FAbsInt(SumAmount(recent_payments)),
                 payment_count |-> Len(recent_payments)])

(***************************************************************************)
(* State: the SQLite store, the last call made with its arguments, what it *)
(* returned, and the local variables the call went through.                *)
(***************************************************************************)
VARIABLES store, call, result, locals, database, open_connections, filesystem
vars == <<store, call, result, locals, database, open_connections, filesystem>>

NoTable == [exists |-> FALSE, rows |-> <<>>]
NoLocals == [reached |-> FALSE]

\* the arguments of a call; those an operation does not take stay at their
\* place holders
Call(op, table) ==
    [op |-> op, table |-> table, pct |-> 0, now |-> 0, days |-> 0,
     if_exists |-> "none", db_path |-> "none", output |-> <<>>]

\* DatabaseManager(): the data directory is made, the database file is not
Init ==
    /\ store = [a \in Accounts |-> NoTable]
    /\ call = Call("none", "none")
    /\ result = Ok("none", [rows_imported |-> 0])
    /\ locals = NoLocals
    /\ database = FALSE
    /\ open_connections = 0
    /\ filesystem = [dirs |-> {<<"data">>}, files |-> {}]

TotalRows == SeqSum([i \in 1..2 |-> Len(store[IF i = 1 THEN "team_beeb_cc" ELSE "team_beeb_checking"].rows)])

\* the frames read_csv can hand to an import: a header-only file or one row
Frames == {<<>>} \cup {<<r>> : r \in RowPool}

IfExists == {"append", "replace", "fail"}

\* a to_sql whose append writes the frame over the stored rows
ToSqlOverwriting(stored, frame, if_exists) ==
    IF if_exists = "fail" /\ stored.exists THEN stored
    ELSE [exists |-> TRUE, rows |-> frame]

\* DataFrame.to_sql(table_name, conn, if_exists=...) on the table as stored
ToSql(stored, frame, if_exists) ==
    IF ~stored.exists THEN [exists |-> TRUE, rows |-> frame]
    ELSE CASE if_exists = "append" -> [exists |-> TRUE, rows |-> stored.rows \o frame]
           [] if_exists = "replace" -> [exists |-> TRUE, rows |-> frame]
           [] if_exists = "fail" -> stored

\* sqlite3.connect and Connection.close
Connect(n) == n + 1
Close(n) == n - 1

\* with get_connection() as conn: the connection is closed in the finally
\* clause, however the block is left
ScopedConnectionExit(n, raised) == Close(Connect(n))

\* DatabaseManager.import_dataframe(df, table_name, if_exists)
ImportDataframe(table, frame, if_exists) ==
    /\ TotalRows - Len(store[table].rows)
          + Len(ToSql(store[table], frame, if_exists).rows) <= MaxTxns
    /\ store' = [store EXCEPT ![table] = ToSql(@, frame, if_exists)]
    /\ call' = [Call("import_dataframe", table) EXCEPT !.if_exists = if_exists]
    /\ result' = IF store[table].exists /\ if_exists = "fail"
                 THEN Failed("import_dataframe", "ValueError")
                 ELSE Ok("import_dataframe", [rows_imported |-> Len(frame)])
    /\ locals' = NoLocals
    /\ database' = TRUE
    /\ open_connections' =
          ScopedConnectionExit(open_connections, store[table].exists /\ if_exists = "fail")
    /\ UNCHANGED filesystem

\* BankAnalyzer.get_account_summary(table_name), called when the clock reads now
GetAccountSummary(table, now) ==
    /\ call' = [Call("get_account_summary", table) EXCEPT !.now = now]
    /\ result' = IF ~store[table].exists
                 THEN Failed("get_account_summary", "DatabaseError")
                 ELSE AccountSummaryOf(store[table].rows, now)
    /\ locals' = NoLocals
    /\ database' = TRUE
    /\ open_connections' = ScopedConnectionExit(open_connections, ~store[table].exists)
    /\ UNCHANGED filesystem
    /\ UNCHANGED store

\* a get_recent_activity that hands back what its last call returned
GetRecentActivityRemembered(table, days, now) ==
    /\ call' = [Call("get_recent_activity", table) EXCEPT !.now = now, !.days = days]
    /\ result' = IF ~store[table].exists
                 THEN Failed("get_recent_activity", "DatabaseError")
                 ELSE IF result.op = "get_recent_activity" THEN result
                 ELSE RecentActivityOf(store[table].rows, days, now)
    /\ locals' = NoLocals
    /\ database' = TRUE
    /\ open_connections' = ScopedConnectionExit(open_connections, ~store[table].exists)
    /\ UNCHANGED filesystem
    /\ UNCHANGED store

\* BankAnalyzer.get_recent_activity(table_name, days), called when the clock reads now
GetRecentActivity(table, days, now) ==
    /\ call' = [Call("get_recent_activity", table) EXCEPT !.now = now, !.days = days]
    /\ result' = IF ~store[table].exists
                 THEN Failed("get_recent_activity", "DatabaseError")
                 ELSE RecentActivityOf(store[table].rows, days, now)
    /\ locals' = NoLocals
    /\ database' = TRUE
    /\ open_connections' = ScopedConnectionExit(open_connections, ~store[table].exists)
    /\ UNCHANGED filesystem
    /\ UNCHANGED store

\* BankAnalyzer.analyze_payment_patterns(table_name)
AnalyzePaymentPatterns(table) ==
    /\ call' = Call("analyze_payment_patterns", table)
    /\ result' = IF ~store[table].exists
                 THEN Failed("analyze_payment_patterns", "DatabaseError")
                 ELSE PaymentPatternsOf(store[table].rows)
    /\ locals' = NoLocals
    /\ database' = TRUE
    /\ open_connections' = ScopedConnectionExit(open_connections, ~store[table].exists)
    /\ UNCHANGED filesystem
    /\ UNCHANGED store

\* ExpenseSplitter.calculate_current_balance_split(table_name, person1_percentage)
CalculateCurrentBalanceSplit(table, pct) ==
    /\ call' = [Call("calculate_current_balance_split", table) EXCEPT !.pct = pct]
    /\ result' = IF ~store[table].exists
                 THEN Failed("calculate_current_balance_split", "DatabaseError")
                 ELSE CurrentBalanceSplitOf(store[table].rows, pct)
    /\ locals' = NoLocals
    /\ database' = TRUE
    /\ open_connections' = ScopedConnectionExit(open_connections, ~store[table].exists)
    /\ UNCHANGED filesystem
    /\ UNCHANGED store

\* ExpenseSplitter.calculate_expense_split(table_name, person1_percentage),
\* called when the wall clock reads now
CalculateExpenseSplit(table, pct, now) ==
    /\ call' = [Call("calculate_expense_split", table) EXCEPT !.pct = pct, !.now = now]
    /\ result' = IF ~store[table].exists
                 THEN Failed("calculate_expense_split", "DatabaseError")
                 ELSE ExpenseSplitOf(store[table].rows, pct, now)
    /\ locals' = IF ~store[table].exists \/ HasBadDate(store[table].rows)
                 THEN NoLocals
                 ELSE [reached |-> TRUE] @@ ExpenseSplitLocals(store[table].rows, now)
    /\ database' = TRUE
    /\ open_connections' = ScopedConnectionExit(open_connections, ~store[table].exists)
    /\ UNCHANGED filesystem
    /\ UNCHANGED store

Days == {29, 30}

Next ==
    \/ \E frame \in Frames, if_exists \in IfExists :
          ImportDataframe("team_beeb_cc", frame, if_exists)
    \/ \E now \in Clock : GetAccountSummary("team_beeb_cc", now)
    \/ \E days \in Days, now \in Clock : GetRecentActivity("team_beeb_cc", days, now)
    \/ AnalyzePaymentPatterns("team_beeb_cc")
    \/ \E pct \in Percentages : CalculateCurrentBalanceSplit("team_beeb_cc", pct)
    \/ \E pct \in Percentages, now \in Clock : CalculateExpenseSplit("team_beeb_cc", pct, now)

Spec == Init /\ [][Next]_vars

(***************************************************************************)
(* The analyze and report commands and the module-level functions kept     *)
(* for backward compatibility.  A command's result lists the analysis      *)
(* calls that returned before it stopped.  The pie charts a report run     *)
(* saves next to the report are left out of the file system.               *)
(***************************************************************************)
\* if person1_percentage < 0 or person1_percentage > 100: error, return
ValidPercentage(pct) == ~(pct < 0 \/ pct > 100)

AccountsToAnalyze(account) ==
    CASE account = "both" -> <<"team_beeb_cc", "team_beeb_checking">>
      [] account = "cc" -> <<"team_beeb_cc">>
      [] account = "checking" -> <<"team_beeb_checking">>

\* the methods class BankAnalyzer defines
BankAnalyzerMethods ==
    {"get_account_summary", "get_recent_activity", "find_last_settlement_date",
     "analyze_payment_patterns", "validate_data_quality"}

\* the five calls analyze_cmd makes on its BankAnalyzer for each account
AnalyzeSteps ==
    <<"get_account_summary", "get_recent_activity", "analyze_payment_patterns",
      "calculate_current_balance_split", "calculate_expense_split">>

AnalyzePlan(account) ==
    LET accts == AccountsToAnalyze(account)
    IN  [i \in 1..(Len(AnalyzeSteps) * Len(accts)) |->
            [account |-> accts[((i - 1) \div Len(AnalyzeSteps)) + 1],
             op |-> AnalyzeSteps[((i - 1) % Len(AnalyzeSteps)) + 1]]]

\* the ten calls of ReportGenerator.generate_report, in its order
ReportPlan ==
    << [account |-> "team_beeb_cc", op |-> "get_account_summary"],
       [account |-> "team_beeb_checking", op |-> "get_account_summary"],
       [account |-> "team_beeb_cc", op |-> "get_recent_activity"],
       [account |-> "team_beeb_checking", op |-> "get_recent_activity"],
       [account |-> "team_beeb_cc", op |-> "calculate_current_balance_split"],
       [account |-> "team_beeb_checking", op |-> "calculate_current_balance_split"],
       [account |-> "team_beeb_cc", op |-> "analyze_payment_patterns"],
       [account |-> "team_beeb_checking", op |-> "analyze_payment_patterns"],
       [account |-> "team_beeb_cc", op |-> "calculate_expense_split"],
       [account |-> "team_beeb_checking", op |-> "calculate_expense_split"] >>

\* one analysis call on the store as it is
AnalysisCall(op, table, days, pct, now) ==
    IF ~store[table].exists THEN Failed(op, "DatabaseError")
    ELSE CASE op = "get_account_summary" -> AccountSummaryOf(store[table].rows, now)
           [] op = "get_recent_activity" -> RecentActivityOf(store[table].rows, days, now)
           [] op = "analyze_payment_patterns" -> PaymentPatternsOf(store[table].rows)
           [] op = "calculate_current_balance_split" ->
                  CurrentBalanceSplitOf(store[table].rows, pct)
           [] op = "calculate_expense_split" -> ExpenseSplitOf(store[table].rows, pct, now)

\* analyzer.<op>(...) on a BankAnalyzer: the attribute lookup comes first
AnalyzerCall(op, table, days, pct, now) ==
    IF op \notin BankAnalyzerMethods THEN Failed(op, "AttributeError")
    ELSE AnalysisCall(op, table, days, pct, now)

\* the calls of plan made in order from the i-th on, until one raises: how
\* many returned, and the error that ended the run
RECURSIVE RunPlan(_, _, _, _, _, _)
RunPlan(plan, i, on_analyzer, days, pct, now) ==
    IF i > Len(plan) THEN [returned |-> Len(plan), error |-> "none"]
    ELSE LET outcome == IF on_analyzer
                        THEN AnalyzerCall(plan[i].op, plan[i].account, days, pct, now)
                        ELSE AnalysisCall(plan[i].op, plan[i].account, days, pct, now)
         IN  IF outcome.status = "error"
             THEN [returned |-> i - 1, error |-> outcome.value.error]
             ELSE RunPlan(plan, i + 1, on_analyzer, days, pct, now)

CommandOk(op, steps, written) ==
    [status |-> "ok", op |-> op,
     value |-> [error |-> "none", steps |-> steps, written |-> written]]

CommandFailed(op, kind, steps) ==
    [status |-> "error", op |-> op,
     value |-> [error |-> kind, steps |-> steps, written |-> <<>>]]

DbPaths == {"none", "given"}

\* analyze_cmd(account, days, person1_percentage, db_path) run when the
\* clock reads now: one try block around the loop over the accounts
AnalyzeCmd(account, days, pct, db_path, now) ==
    \E plan \in {AnalyzePlan(account)} :
    \E run \in {RunPlan(plan, 1, TRUE, days, pct, now)} :
        /\ call' = [Call("analyze_cmd", account) EXCEPT
                       !.pct = pct, !.now = now, !.days = days, !.db_path = db_path]
        /\ result' =
              IF ~ValidPercentage(pct)
              THEN CommandFailed("analyze_cmd", "InvalidPercentage", <<>>)
              ELSE IF db_path = "none"
              THEN CommandFailed("analyze_cmd", "TypeError", <<>>)
              ELSE IF run.error # "none"
              THEN CommandFailed("analyze_cmd", run.error, SubSeq(plan, 1, run.returned))
              ELSE CommandOk("analyze_cmd", plan, <<>>)
        /\ database' = (database \/ (ValidPercentage(pct) /\ db_path # "none"))
        /\ locals' = NoLocals
        /\ UNCHANGED <<store, open_connections, filesystem>>

DefaultOutput == <<"reports", "USAA_Transaction_Report.md">>
Outputs == {DefaultOutput, <<"summary.md">>}
OutputDir == <<"reports">>
DefaultDays == 30

\* os.path.dirname
Dirname(path) == SubSeq(path, 1, Len(path) - 1)

\* os.makedirs(d, exist_ok=True) / Path.mkdir(parents=True, exist_ok=True)
MakeDirs(dirs, d) == dirs \cup {SubSeq(d, 1, n) : n \in 1..Len(d)}

\* report_cmd(person1_percentage, output, db_path) run when the clock reads
\* now: the output directories are made, the ten analyses are gathered and
\* the report is then opened for writing at output_dir / filename
ReportCmd(pct, db_path, output, now) ==
    \E run \in {RunPlan(ReportPlan, 1, FALSE, DefaultDays, pct, now)} :
    \E dirs_made \in {MakeDirs(MakeDirs(filesystem.dirs, Dirname(output)), OutputDir)} :
        LET report_path == OutputDir \o output
            opened      == Dirname(report_path) \in dirs_made
        IN  /\ call' = [Call("report_cmd", "both") EXCEPT
                           !.pct = pct, !.now = now, !.db_path = db_path, !.output = output]
            /\ result' =
                  IF ~ValidPercentage(pct)
                  THEN CommandFailed("report_cmd", "InvalidPercentage", <<>>)
                  ELSE IF run.error # "none"
                  THEN CommandFailed("report_cmd", run.error,
                                     SubSeq(ReportPlan, 1, run.returned))
                  ELSE IF ~opened
                  THEN CommandFailed("report_cmd", "FileNotFoundError", ReportPlan)
                  ELSE CommandOk("report_cmd", ReportPlan, report_path)
            /\ database' = (database \/ ValidPercentage(pct))
            /\ filesystem' =
                  IF ~ValidPercentage(pct) THEN filesystem
                  ELSE [dirs |-> dirs_made,
                        files |-> IF run.error = "none" /\ opened
                                  THEN filesystem.files \cup {report_path}
                                  ELSE filesystem.files]
            /\ locals' = NoLocals
            /\ UNCHANGED <<store, open_connections>>

\* module-level calculate_current_balance_split: an ExpenseSplitter on the
\* global db_manager, the arguments handed through as they come
LegacyCalculateCurrentBalanceSplit(table, pct) ==
    CalculateCurrentBalanceSplit(table, pct)

\* module-level calculate_expense_split
LegacyCalculateExpenseSplit(table, pct, now) ==
    CalculateExpenseSplit(table, pct, now)

\* a well-formed charge and a row whose date does not parse
CmdRowPool ==
    { Row(170, DescGroceries, "Food", 3),
      Row(BadDate, DescGroceries, "Food", -3) }

CmdFrames == {<<>>} \cup {<<r>> : r \in CmdRowPool}

\* --person1-percentage is any integer
CmdPercentages == {-10, 50, 150}
AccountChoices == {"both", "cc", "checking"}
CmdClock == {200}

NextCmd ==
    \/ \E table \in Accounts, frame \in CmdFrames : ImportDataframe(table, frame, "append")
    \/ \E account \in AccountChoices, pct \in CmdPercentages, db_path \in DbPaths, now \in CmdClock :
          AnalyzeCmd(account, DefaultDays, pct, db_path, now)
    \/ \E pct \in CmdPercentages, db_path \in DbPaths, output \in Outputs, now \in CmdClock :
          ReportCmd(pct, db_path, output, now)
    \/ \E table \in Accounts, pct \in CmdPercentages :
          LegacyCalculateCurrentBalanceSplit(table, pct)
    \/ \E table \in Accounts, pct \in CmdPercentages, now \in CmdClock :
          LegacyCalculateExpenseSplit(table, pct, now)

SpecCmd == Init /\ [][NextCmd]_vars

(***************************************************************************)
(* The stand-alone import script import_usaa_csvs.py and the store         *)
(* operations of DatabaseManager, with the connections they leave open.    *)
(***************************************************************************)
CsvFile(frame) == [readable |-> TRUE, frame |-> frame]

\* a CSV export that read_csv cannot open
MissingCsv == [readable |-> FALSE, frame |-> <<>>]

CsvInputs == {MissingCsv} \cup {CsvFile(frame) : frame \in CmdFrames}

\* conn = sqlite3.connect(DB_PATH) ... conn.close() with no try block: an
\* exception on the way skips the close
UnscopedConnectionExit(n, raised) == IF raised THEN Connect(n) ELSE Close(Connect(n))

MaxOpenConnections == 2

\* import_csv_to_sqlite(): one connection, then for the credit-card and the
\* checking export in turn read_csv and to_sql(if_exists='append'), then close
ImportCsvToSqlite(cc_csv, checking_csv) ==
    LET raised   == ~cc_csv.readable \/ ~checking_csv.readable
        after_cc == [store EXCEPT !["team_beeb_cc"] = ToSql(@, cc_csv.frame, "append")]
        imported == IF ~cc_csv.readable THEN store
                    ELSE IF ~checking_csv.readable THEN after_cc
                    ELSE [after_cc EXCEPT
                             !["team_beeb_checking"] = ToSql(@, checking_csv.frame, "append")]
    IN  /\ open_connections < MaxOpenConnections
        /\ Len(imported["team_beeb_cc"].rows) + Len(imported["team_beeb_checking"].rows)
              <= MaxTxns
        /\ store' = imported
        /\ call' = Call("import_csv_to_sqlite", "both")
        /\ result' = IF raised THEN Failed("import_csv_to_sqlite", "FileNotFoundError")
                     ELSE Ok("import_csv_to_sqlite",
                             [rows_imported |-> Len(cc_csv.frame) + Len(checking_csv.frame)])
        /\ locals' = NoLocals
        /\ database' = TRUE
        /\ open_connections' = UnscopedConnectionExit(open_connections, raised)
        /\ UNCHANGED filesystem

\* DatabaseManager.table_exists(table_name), through fetch_all
TableExists(table) ==
    /\ call' = Call("table_exists", table)
    /\ result' = Ok("table_exists", [exists |-> store[table].exists])
    /\ locals' = NoLocals
    /\ database' = TRUE
    /\ open_connections' = ScopedConnectionExit(open_connections, FALSE)
    /\ UNCHANGED <<store, filesystem>>

NextStore ==
    \/ \E cc_csv \in CsvInputs, checking_csv \in CsvInputs :
          ImportCsvToSqlite(cc_csv, checking_csv)
    \/ \E table \in Accounts, frame \in CmdFrames : ImportDataframe(table, frame, "append")
    \/ \E table \in Accounts : TableExists(table)
    \/ \E table \in Accounts, now \in CmdClock : GetAccountSummary(table, now)
    \/ \E table \in Accounts : CalculateCurrentBalanceSplit(table, 50)

SpecStore == Init /\ [][NextStore]_vars

(***************************************************************************)
(* The import command, run on an export directory that is missing, holds   *)
(* no CSV file, or holds the two default export files.                     *)
(***************************************************************************)
\* an import loop that gives up at the first file it cannot import
ImportCmdStoppingAtFailure(export, cc_csv, checking_csv, dry_run) ==
    LET cc_table       == "team_beeb_cc"
        checking_table == "team_beeb_checking"
        Line(table, csv) ==
            [table |-> table,
             status |-> IF csv.readable THEN "ok" ELSE "error",
             rows |-> IF csv.readable THEN Len(csv.frame) ELSE 0]
        after_cc  == IF cc_csv.readable
                     THEN [store EXCEPT ![cc_table] = ToSql(@, cc_csv.frame, "append")]
                     ELSE store
        imported  == IF checking_csv.readable /\ cc_csv.readable
                     THEN [after_cc EXCEPT
                              ![checking_table] = ToSql(@, checking_csv.frame, "append")]
                     ELSE after_cc
        lines     == <<Line(cc_table, cc_csv), Line(checking_table, checking_csv)>>
        writes    == export = "files" /\ ~dry_run
    IN  /\ Len(imported[cc_table].rows) + Len(imported[checking_table].rows) <= MaxTxns
        /\ store' = IF writes THEN imported ELSE store
        /\ call' = Call("import_cmd", "both")
        /\ result' = Ok("import_cmd",
                        [export |-> export,
                         dry_run |-> dry_run,
                         lines |-> IF export = "files" THEN lines ELSE <<>>,
                         rows_imported |-> IF writes THEN lines[1].rows + lines[2].rows
                                           ELSE 0])
        /\ locals' = NoLocals
        /\ database' = (database \/ (writes /\ (cc_csv.readable \/ checking_csv.readable)))
        /\ UNCHANGED <<open_connections, filesystem>>

\* import_cmd(export_dir, db_path, dry_run): read_csv and import_dataframe
\* for each file inside its own try block, one output line per file, then
\* the total; a dry run only reads the files
ImportCmd(export, cc_csv, checking_csv, dry_run) ==
    LET cc_table       == "team_beeb_cc"
        checking_table == "team_beeb_checking"
        Line(table, csv) ==
            [table |-> table,
             status |-> IF csv.readable THEN "ok" ELSE "error",
             rows |-> IF csv.readable THEN Len(csv.frame) ELSE 0]
        after_cc  == IF cc_csv.readable
                     THEN [store EXCEPT ![cc_table] = ToSql(@, cc_csv.frame, "append")]
                     ELSE store
        imported  == IF checking_csv.readable
                     THEN [after_cc EXCEPT
                              ![checking_table] = ToSql(@, checking_csv.frame, "append")]
                     ELSE after_cc
        lines     == <<Line(cc_table, cc_csv), Line(checking_table, checking_csv)>>
        writes    == export = "files" /\ ~dry_run
    IN  /\ Len(imported[cc_table].rows) + Len(imported[checking_table].rows) <= MaxTxns
        /\ store' = IF writes THEN imported ELSE store
        /\ call' = Call("import_cmd", "both")
        /\ result' = Ok("import_cmd",
                        [export |-> export,
                         dry_run |-> dry_run,
                         lines |-> IF export = "files" THEN lines ELSE <<>>,
                         rows_imported |-> IF writes THEN lines[1].rows + lines[2].rows
                                           ELSE 0])
        /\ locals' = NoLocals
        /\ database' = (database \/ (writes /\ (cc_csv.readable \/ checking_csv.readable)))
        /\ UNCHANGED <<open_connections, filesystem>>

ExportDirs == {"missing", "empty", "files"}

NextImport ==
    \/ \E export \in ExportDirs, cc_csv \in CsvInputs, checking_csv \in CsvInputs,
          dry_run \in BOOLEAN : ImportCmd(export, cc_csv, checking_csv, dry_run)
    \/ \E table \in Accounts, now \in CmdClock : GetAccountSummary(table, now)

SpecImport == Init /\ [][NextImport]_vars

(***************************************************************************)
(* get_account_summary with its date-quality report, over every content    *)
(* of the credit-card table of up to QualityMaxRows transactions.          *)
(***************************************************************************)
QualityNow == 200

\* one transaction dated long ago, one dated "now", one on the last tick of
\* the near-future week, one on the first tick after it, one without a date
\* and one whose date is no date
QualityRowPool ==
    { Row(100, DescGroceries, "Food", 3),
      Row(QualityNow, DescGroceries, "Food", 4),
      Row(QualityNow + NearFutureDays * TicksPerDay, DescGroceries, "Gas", 5),
      Row(QualityNow + NearFutureDays * TicksPerDay + 1, DescGroceries, "Gas", 6),
      Row(NullDate, DescGroceries, "Food", 7),
      Row(BadDate, DescGroceries, "Food", 8) }

QualityMaxRows == 6

QualityTables == UNION {[1..n -> QualityRowPool] : n \in 0..QualityMaxRows}

InitQuality ==
    /\ store \in {[a \in Accounts |-> IF a = "team_beeb_cc"
                                      THEN [exists |-> TRUE, rows |-> rows]
                                      ELSE NoTable] : rows \in QualityTables}
    /\ call = Call("none", "none")
    /\ result = Ok("none", [rows_imported |-> 0])
    /\ locals = NoLocals
    /\ database = TRUE
    /\ open_connections = 0
    /\ filesystem = [dirs |-> {<<"data">>}, files |-> {}]

NextQuality == GetAccountSummary("team_beeb_cc", QualityNow)

SpecQuality == InitQuality /\ [][NextQuality]_vars

(***************************************************************************)
(* calculate_current_balance_split over amounts with cents.  In this part  *)
(* the amount column of a row counts cents, and the three totals are added *)
(* up in floating point as Series.sum() does.                              *)
(***************************************************************************)
\* the float read for an amount of c cents: the text "d.cc" parses to c / 100
CentsToFloat(c) == FDivInt(c, 100)

BalanceTotalsOf(rows, pct) ==
    LET amount        == [i \in 1..Len(rows) |-> CentsToFloat(rows[i].amount)]
        total_balance == FSum(amount)
        expenses      == SelectSeq(amount, LAMBDA x : x.m # <<>> /\ x.s = 1)
        credits       == SelectSeq(amount, LAMBDA x : x.m # <<>> /\ x.s = -1)
    IN  Ok("calculate_current_balance_split",
           [total_balance |-> total_balance,
            total_expenses |-> IF Len(expenses) > 0 THEN FSum(expenses) ELSE FZero,
            total_payments_credits |->
                IF Len(credits) > 0 THEN FAbs(FSum(credits)) ELSE FZero,
            person1_percentage |-> pct,
            person2_percentage |-> 100 - pct,
            person1_owes |-> FMul(total_balance, FDivInt(pct, 100)),
            person2_owes |-> FMul(total_balance, FDivInt(100 - pct, 100)),
            num_expense_transactions |-> Len(expenses)])

\* ExpenseSplitter.calculate_current_balance_split(table_name, person1_percentage)
\* on a table whose rows all carry a date; the category breakdown and the
\* date range are left out of the result
CalculateCurrentBalanceSplitCents(table, pct) ==
    /\ store[table].exists
    /\ call' = [Call("calculate_current_balance_split", table) EXCEPT !.pct = pct]
    /\ result' = BalanceTotalsOf(store[table].rows, pct)
    /\ locals' = NoLocals
    /\ database' = TRUE
    /\ open_connections' = ScopedConnectionExit(open_connections, FALSE)
    /\ UNCHANGED <<store, filesystem>>

\* amounts of 0.10, 0.20, -0.10 and -0.30
CentRowPool == {Row(170, DescGroceries, "Food", c) : c \in {10, 20, -10, -30}}

CentsMaxRows == 3

InitCents ==
    /\ store \in {[a \in Accounts |-> IF a = "team_beeb_cc"
                                      THEN [exists |-> TRUE, rows |-> rows]
                                      ELSE NoTable] :
                   rows \in UNION {[1..n -> CentRowPool] : n \in 0..CentsMaxRows}}
    /\ call = Call("none", "none")
    /\ result = Ok("none", [rows_imported |-> 0])
    /\ locals = NoLocals
    /\ database = TRUE
    /\ open_connections = 0
    /\ filesystem = [dirs |-> {<<"data">>}, files |-> {}]

NextCents == \E pct \in {30, 50} : CalculateCurrentBalanceSplitCents("team_beeb_cc", pct)

SpecCents == InitCents /\ [][NextCents]_vars

(***************************************************************************)
(* Vocabulary of the properties: the stored rows of the account the last   *)
(* call was about, and sums and counts taken directly over them.           *)
(***************************************************************************)
BalanceReturned == call.op = "calculate_current_balance_split" /\ result.status = "ok"
ExpenseReturned == call.op = "calculate_expense_split" /\ result.status = "ok"

Stored == store[call.table].rows
StoredIdx == 1..Len(Stored)

RECURSIVE AmountOver(_)
AmountOver(idx) ==
    IF idx = {} THEN 0
    ELSE LET i == CHOOSE j \in idx : TRUE
         IN  Stored[i].amount + AmountOver(idx \ {i})

Magnitude(n) == IF n >= 0 THEN n ELSE 0 - n

HasDate(i) == Stored[i].date >= 0

RECURSIVE BreakdownTotal(_)
BreakdownTotal(entries) ==
    IF entries = <<>> THEN 0
    ELSE Head(entries).total_amount + BreakdownTotal(Tail(entries))

\* the descriptions of RowPool in which the word "payment" occurs
PaymentDescriptions == {DescCardPayment, DescOnlinePayment}

CandidateIdx ==
    {i \in StoredIdx : Stored[i].amount < 0 /\ Stored[i].description \in PaymentDescriptions}

CandidateDates == {Stored[i].date : i \in {j \in CandidateIdx : HasDate(j)}}

\* the latest date any candidate carries; NaT when none carries a date
LatestCandidateDate ==
    IF CandidateDates = {} THEN NaT
    ELSE CHOOSE d \in CandidateDates : \A o \in CandidateDates : d >= o

\* candidates dated in [D - 30 days, D], D the latest candidate date
CandidatesInWindow ==
    {i \in CandidateIdx : /\ HasDate(i)
                          /\ Stored[i].date >= LatestCandidateDate - 30 * TicksPerDay
                          /\ Stored[i].date <= LatestCandidateDate}

\* C1: in every returned split the two shares add up to the total exactly:
\* person1_owes + person2_owes = total_balance in the current-balance split
\* and person1_share + person2_share = total_expenses in the expense split,
\* for every percentage in 0..100.
C1_SharesAddUpExactly ==
    /\ BalanceReturned =>
          FAddSame(result.value.person1_owes, result.value.person2_owes)
              = FFromInt(result.value.total_balance)
    /\ ExpenseReturned =>
          FAddSame(result.value.person1_share, result.value.person2_share)
              = FFromInt(result.value.total_expenses)

\* C2 as claimed: in both splits the total_amount entries of
\* category_breakdown add up to the reported total_expenses.
C2_BreakdownAddsUpToTotal ==
    (BalanceReturned \/ ExpenseReturned) =>
        BreakdownTotal(result.value.category_breakdown) = result.value.total_expenses

ExpenseSubsetIdx ==
    IF call.op = "calculate_current_balance_split"
    THEN {i \in StoredIdx : Stored[i].amount > 0}
    ELSE {i \in StoredIdx :
            /\ Stored[i].amount < 0
            /\ HasDate(i)
            /\ IF locals.last_settlement_date = NoneDate
               THEN Stored[i].date >= call.now - 30 * TicksPerDay
               ELSE Stored[i].date > locals.last_settlement_date}

\* C2 as amended: the total_amount entries of category_breakdown add up to
\* the (absolute) sum of the expense-subset transactions that have a
\* category; total_expenses exceeds that by the expense-subset transactions
\* without category.
C2_BreakdownAddsUpToCategorised ==
    (BalanceReturned \/ ExpenseReturned) =>
        LET withCat == {i \in ExpenseSubsetIdx : Stored[i].category # NullCategory}
        IN  /\ BreakdownTotal(result.value.category_breakdown)
                  = Magnitude(AmountOver(withCat))
            /\ result.value.total_expenses
                  = BreakdownTotal(result.value.category_breakdown)
                    + Magnitude(AmountOver(ExpenseSubsetIdx \ withCat))

\* a split returned a breakdown while an expense-subset row has no category
C2_Witness ==
    /\ BalanceReturned \/ ExpenseReturned
    /\ Len(result.value.category_breakdown) >= 1
    /\ \E i \in ExpenseSubsetIdx : Stored[i].category = NullCategory

C4_NoneOrDate ==
    locals.reached =>
        /\ locals.last_settlement_date = NoneDate <=> CandidateIdx = {}
        /\ CandidateIdx # {} => locals.last_settlement_date >= 0

\* C5: with a settlement date D detected, total_expenses is the absolute sum
\* and num_expense_transactions the number of the transactions dated strictly
\* after D with amount < 0; a payment followed by one -75 purchase gives 75,
\* and 37.5 for person 1 at 50%.
C5_ExpensesStrictlyAfterSettlement ==
    (ExpenseReturned /\ locals.last_settlement_date >= 0) =>
        LET after == {i \in StoredIdx : /\ HasDate(i)
                                        /\ Stored[i].date > locals.last_settlement_date
                                        /\ Stored[i].amount < 0}
        IN  /\ result.value.total_expenses = Magnitude(AmountOver(after))
            /\ result.value.num_expense_transactions = Cardinality(after)
            /\ (/\ Stored = << Row(100, DescCardPayment, NullCategory, -500),
                               Row(140, DescGroceries, "Food", -75) >>
                /\ call.pct = 50)
                  => /\ result.value.total_expenses = 75
                     /\ result.value.person1_share = [s |-> 1, m |-> <<75>>, e |-> -1]

\* the payment-then-purchase example, split at 50%
C5_Witness ==
    /\ ExpenseReturned
    /\ Stored = << Row(100, DescCardPayment, NullCategory, -500),
                   Row(140, DescGroceries, "Food", -75) >>
    /\ call.pct = 50
    /\ locals.last_settlement_date = 100

SameRows(rows, idx) ==
    /\ Len(rows) = Cardinality(idx)
    /\ {rows[i] : i \in 1..Len(rows)} = {ParseDates(Stored)[i] : i \in idx}

C7_TotalBalanceIsWholeHistory ==
    BalanceReturned => result.value.total_balance = AmountOver(StoredIdx)

\* a balance split over a history with a settlement payment and a charge
C7_Witness ==
    /\ BalanceReturned
    /\ CandidateIdx # {}
    /\ \E i \in StoredIdx : Stored[i].amount > 0
    /\ result.value.total_balance < 0

\* C8: the breakdown of the current-balance split has exactly one entry per
\* category occurring among the amount > 0 transactions, carrying the sum of
\* that category's amount > 0 transactions split by pct and 100 - pct;
\* transactions without category or with amount <= 0 add no entry.
C8_OneEntryPerExpenseCategory ==
    BalanceReturned =>
        LET breakdown == result.value.category_breakdown
            cats == {Stored[i].category :
                        i \in {j \in StoredIdx : /\ Stored[j].amount > 0
                                                 /\ Stored[j].category # NullCategory}}
        IN  /\ Len(breakdown) = Cardinality(cats)
            /\ {breakdown[k].category : k \in 1..Len(breakdown)} = cats
            /\ \A k \in 1..Len(breakdown) :
                  /\ breakdown[k].total_amount
                        = AmountOver({i \in StoredIdx :
                                         /\ Stored[i].amount > 0
                                         /\ Stored[i].category = breakdown[k].category})
                  /\ breakdown[k].person1_share
                        = FMul(FFromInt(breakdown[k].total_amount), FDivInt(call.pct, 100))
                  /\ breakdown[k].person2_share
                        = FMul(FFromInt(breakdown[k].total_amount),
                               FDivInt(100 - call.pct, 100))

\* a breakdown of one entry from a history that also holds a charge without
\* category
C8_Witness ==
    /\ BalanceReturned
    /\ Len(result.value.category_breakdown) = 1
    /\ \E i \in StoredIdx : Stored[i].amount > 0 /\ Stored[i].category = NullCategory
    /\ call.pct = 30

\* C9: category_breakdown of both splits is ordered by total_amount,
\* largest first: no entry is smaller than its successor.
C9_BreakdownDescending ==
    (BalanceReturned \/ ExpenseReturned) =>
        LET breakdown == result.value.category_breakdown
        IN  \A k \in 1..(Len(breakdown) - 1) :
               breakdown[k].total_amount >= breakdown[k + 1].total_amount

\* an expense split whose two categories were met smallest first
C9_Witness ==
    /\ ExpenseReturned
    /\ Len(result.value.category_breakdown) = 2
    /\ result.value.category_breakdown[1].total_amount
          > result.value.category_breakdown[2].total_amount
    /\ locals.expenses[1].category = result.value.category_breakdown[2].category

\* C10 as claimed: total_payments_credits is the absolute sum of the
\* amount < 0 transactions, and the transaction count and date_range are
\* taken over the amount > 0 transactions.
C10_DateRangeOverExpenses ==
    BalanceReturned =>
        LET neg == {i \in StoredIdx : Stored[i].amount < 0}
            pos == {i \in StoredIdx : Stored[i].amount > 0}
            posDates == {Stored[i].date : i \in {j \in pos : HasDate(j)}}
        IN  /\ result.value.total_payments_credits = Magnitude(AmountOver(neg))
            /\ result.value.num_expense_transactions = Cardinality(pos)
            /\ posDates # {} =>
                  /\ \E d \in posDates : /\ \A o \in posDates : d <= o
                                         /\ result.value.date_range[1] = Strftime(d)
                  /\ \E d \in posDates : /\ \A o \in posDates : d >= o
                                         /\ result.value.date_range[2] = Strftime(d)

\* C10 as amended: total_payments_credits is the absolute sum of the
\* amount < 0 transactions, num_expense_transactions counts the amount > 0
\* transactions, and date_range is the earliest and latest date over all
\* transactions of the account, whatever their sign ("N/A" twice for an
\* account without transactions).
C10_DateRangeOverAll ==
    BalanceReturned =>
        LET neg == {i \in StoredIdx : Stored[i].amount < 0}
            pos == {i \in StoredIdx : Stored[i].amount > 0}
            dates == {Stored[i].date : i \in {j \in StoredIdx : HasDate(j)}}
        IN  /\ result.value.total_payments_credits = Magnitude(AmountOver(neg))
            /\ result.value.num_expense_transactions = Cardinality(pos)
            /\ Stored = <<>> => result.value.date_range = <<"N/A", "N/A">>
            /\ Stored # <<>> =>
                  /\ \E d \in dates : /\ \A o \in dates : d <= o
                                      /\ result.value.date_range[1] = Strftime(d)
                  /\ \E d \in dates : /\ \A o \in dates : d >= o
                                      /\ result.value.date_range[2] = Strftime(d)

\* a balance split whose earliest transaction is a payment and whose only
\* charge is later
C10_Witness ==
    /\ BalanceReturned
    /\ result.value.num_expense_transactions = 1
    /\ result.value.total_payments_credits = 500
    /\ result.value.date_range = <<Strftime(100), Strftime(170)>>

\* the expense split got as far as choosing its window, and the window
\* holds no amount < 0 transaction although the account has transactions
EmptyExpenseWindow ==
    /\ call.op = "calculate_expense_split"
    /\ locals.reached
    /\ Stored # <<>>
    /\ \A i \in 1..Len(locals.recent) : locals.recent[i].amount >= 0

\* C11: when the window of calculate_expense_split holds no amount < 0
\* transaction on an account that has transactions, the call returns
\* normally with total_expenses, both shares and num_expense_transactions
\* zero, an empty category_breakdown and date_range ("N/A", "N/A").
C11_EmptyWindowReturnsZeros ==
    EmptyExpenseWindow =>
        /\ result.status = "ok"
        /\ result.value.total_expenses = 0
        /\ result.value.person1_share = FZero
        /\ result.value.person2_share = FZero
        /\ result.value.num_expense_transactions = 0
        /\ result.value.category_breakdown = <<>>
        /\ result.value.date_range = <<"N/A", "N/A">>

Reporters ==
    {"get_account_summary", "get_recent_activity", "analyze_payment_patterns",
     "calculate_current_balance_split", "calculate_expense_split"}

\* the last call was a reporter run on an account table that exists and
\* holds no transaction
ReportedOnEmptyAccount ==
    /\ call.op \in Reporters
    /\ store[call.table].exists
    /\ Stored = <<>>

\* C12: on an account that exists and holds zero transactions every
\* reporter returns normally: counts and totals are zero, breakdowns and
\* lists are empty, and every date range is ("N/A", "N/A").
C12_EmptyAccountReportsZeros ==
    ReportedOnEmptyAccount =>
        /\ result.status = "ok"
        /\ call.op = "get_account_summary" =>
              /\ result.value.total_transactions = 0
              /\ result.value.total_amount = "$0.00"
              /\ result.value.date_range = <<"N/A", "N/A">>
              /\ result.value.data_quality.total_transactions = 0
              /\ result.value.data_quality.historical_count = 0
              /\ result.value.data_quality.near_future_count = 0
              /\ result.value.data_quality.far_future_count = 0
              /\ result.value.data_quality.invalid_dates_count = 0
              /\ result.value.data_quality.far_future_transactions = <<>>
        /\ call.op = "get_recent_activity" =>
              /\ result.value.num_transactions = 0
              /\ result.value.total_amount = "$0.00"
              /\ result.value.top_categories = <<>>
        /\ call.op = "analyze_payment_patterns" =>
              /\ result.value.recent_payments = <<>>
              /\ result.value.total_recent_payments = 0
              /\ result.value.payment_count = 0
        /\ call.op = "calculate_current_balance_split" =>
              /\ result.value.total_balance = 0
              /\ result.value.total_expenses = 0
              /\ result.value.total_payments_credits = 0
              /\ result.value.person1_owes.m = <<>>
              /\ result.value.person2_owes.m = <<>>
              /\ result.value.category_breakdown = <<>>
              /\ result.value.num_expense_transactions = 0
              /\ result.value.date_range = <<"N/A", "N/A">>
        /\ call.op = "calculate_expense_split" =>
              /\ result.value.total_expenses = 0
              /\ result.value.person1_share.m = <<>>
              /\ result.value.person2_share.m = <<>>
              /\ result.value.category_breakdown = <<>>
              /\ result.value.num_expense_transactions = 0
              /\ result.value.date_range = <<"N/A", "N/A">>

\* the account summary of a table made by a header-only import
C12_Witness ==
    /\ ReportedOnEmptyAccount
    /\ call.op = "get_account_summary"
    /\ result.status = "ok"
    /\ result.value.total_transactions = 0
    /\ result.value.date_range = <<"N/A", "N/A">>

\* C13: in both splits, at pct = 0 person 1's share of the total and of
\* every category is zero, and at pct = 100 person 2's share of the total
\* and of every category is zero, whatever the account holds.
C13_BoundaryShareIsZero ==
    /\ BalanceReturned =>
          LET breakdown == result.value.category_breakdown
          IN  /\ call.pct = 0 =>
                    /\ result.value.person1_owes = FZero
                    /\ \A k \in 1..Len(breakdown) : breakdown[k].person1_share = FZero
              /\ call.pct = 100 =>
                    /\ result.value.person2_owes = FZero
                    /\ \A k \in 1..Len(breakdown) : breakdown[k].person2_share = FZero
    /\ ExpenseReturned =>
          LET breakdown == result.value.category_breakdown
          IN  /\ call.pct = 0 =>
                    /\ result.value.person1_share = FZero
                    /\ \A k \in 1..Len(breakdown) : breakdown[k].person1_share = FZero
              /\ call.pct = 100 =>
                    /\ result.value.person2_share = FZero
                    /\ \A k \in 1..Len(breakdown) : breakdown[k].person2_share = FZero

\* an expense split at 100% over expenses in two categories: person 1
\* carries the whole total, person 2 nothing
C13_Witness ==
    /\ ExpenseReturned
    /\ call.pct = 100
    /\ result.value.total_expenses > 0
    /\ Len(result.value.category_breakdown) = 2
    /\ result.value.person1_share = FFromInt(result.value.total_expenses)
    /\ result.value.person2_share = FZero

\* the ways a caller reaches the two split operations: the commands and the
\* module-level functions
SplitEntryPoints ==
    {"analyze_cmd", "report_cmd",
     "calculate_current_balance_split", "calculate_expense_split"}

\* C14: a person-1 percentage below 0 or above 100 is rejected at every
\* entry point that leads to a split operation: the call ends in the
\* percentage error, before any split is computed and before the store is
\* read.
C14_InvalidPercentageRejected ==
    (call.op \in SplitEntryPoints /\ (call.pct < 0 \/ call.pct > 100)) =>
        /\ result.status = "error"
        /\ result.value.error = "InvalidPercentage"

\* the account's table is there and every row of it carries a date
AccountIsSound(a) ==
    /\ store[a].exists
    /\ \A i \in 1..Len(store[a].rows) : store[a].rows[i].date >= 0

\* loading the account fails (no table) or analysing it fails (a date that
\* does not parse)
AccountFails(a) ==
    \/ ~store[a].exists
    \/ \E i \in 1..Len(store[a].rows) : store[a].rows[i].date = BadDate

PipelineDone(a) ==
    \A op \in Reporters :
        \E n \in 1..Len(result.value.steps) :
            result.value.steps[n] = [account |-> a, op |-> op]

\* C15: when analyze runs over both accounts and one of them fails to load
\* or to analyse, the other account's summary, recent activity, payment
\* patterns and both splits are still executed, whichever of the two comes
\* first.
C15_OtherAccountStillAnalysed ==
    (/\ call.op = "analyze_cmd"
     /\ call.table = "both"
     /\ call.db_path = "given"
     /\ call.pct >= 0 /\ call.pct <= 100) =>
        \A a \in Accounts :
            (AccountIsSound(a) /\ \E o \in Accounts \ {a} : AccountFails(o))
                => PipelineDone(a)

\* C16: an analytic operation invoked while the database or the account
\* table is missing ends in an error and leaves the store as it was: no
\* database and no account table exists after the call that did not exist
\* before it.
C16_MissingStoreLeftAsItWas ==
    [][(call'.op \in Reporters /\ (~database \/ ~store[call'.table].exists)) =>
          /\ result'.status = "error"
          /\ database' = database
          /\ \A a \in Accounts : store'[a].exists = store[a].exists]_vars

\* the texts strftime gives for the dates the account's rows carry
StoredDayTexts == {Strftime(Stored[i].date) : i \in {j \in StoredIdx : HasDate(j)}}

\* C17: a transaction whose date does not parse makes none of the five
\* analytic operations fail: its date counts as null, and each bound of a
\* reported date range is the day of a transaction that has a date, or
\* "N/A".
C17_UnparseableDateTolerated ==
    (/\ call.op \in Reporters
     /\ store[call.table].exists
     /\ \E i \in StoredIdx : Stored[i].date = BadDate) =>
        /\ result.status = "ok"
        /\ call.op \in {"get_account_summary", "calculate_current_balance_split",
                        "calculate_expense_split"} =>
              /\ result.value.date_range[1] \in StoredDayTexts \cup {"N/A"}
              /\ result.value.date_range[2] \in StoredDayTexts \cup {"N/A"}

\* C18: no operation leaves a connection open: whenever an analytic or
\* store operation has finished, by return or by failure, every connection
\* it opened has been closed.
C18_NoConnectionLeftOpen == open_connections = 0

\* the rows of every account table before a step are still there after it,
\* unchanged and in the same order, at the head of the table
IsPrefix(s, t) == Len(s) <= Len(t) /\ SubSeq(t, 1, Len(s)) = s

RowsKept == \A a \in Accounts : IsPrefix(store[a].rows, store'[a].rows)

AnalyticResult(c, tables) ==
    IF ~tables[c.table].exists THEN Failed(c.op, "DatabaseError")
    ELSE CASE c.op = "get_account_summary" ->
                 AccountSummaryOf(tables[c.table].rows, c.now)
           [] c.op = "get_recent_activity" ->
                 RecentActivityOf(tables[c.table].rows, c.days, c.now)
           [] c.op = "analyze_payment_patterns" ->
                 PaymentPatternsOf(tables[c.table].rows)
           [] c.op = "calculate_current_balance_split" ->
                 CurrentBalanceSplitOf(tables[c.table].rows, c.pct)
           [] c.op = "calculate_expense_split" ->
                 ExpenseSplitOf(tables[c.table].rows, c.pct, c.now)

RecentReturned == call.op = "get_recent_activity" /\ result.status = "ok"

\* the stored transactions dated at or after now - days
RecentWindowIdx ==
    {i \in StoredIdx : HasDate(i) /\ Stored[i].date >= call.now - call.days * TicksPerDay}

C21_BoundaryCounted ==
    /\ RecentReturned
    /\ \E i \in StoredIdx : Stored[i].date = call.now - call.days * TicksPerDay
    /\ result.value.num_transactions = Len(Stored)
    /\ Len(Stored) > 0


PatternsCalled == call.op = "analyze_payment_patterns" /\ store[call.table].exists

\* the stored transactions with amount < 0 whose description holds
\* "credit card payment" in any letter case
CardPaymentIdx ==
    {i \in StoredIdx : /\ Stored[i].amount < 0
                       /\ Stored[i].description # NullStr
                       /\ IsSubstring(ToLower(PatCreditCardPayment),
                                      ToLower(Stored[i].description))}

MinOf(a, b) == IF a <= b THEN a ELSE b

\* C22: analyze_payment_patterns returns the at most 4 most recent
\* transactions with amount < 0 whose description holds "credit card
\* payment", each with its absolute amount, their summed absolute amount
\* and their number; with no such transaction it returns an empty list and
\* zeros, without error.
C22_PaymentPatternsReturned ==
    PatternsCalled =>
        /\ result.status = "ok"
        /\ result.value.payment_count = MinOf(RecentPaymentCount, Cardinality(CardPaymentIdx))
        /\ Len(result.value.recent_payments) = result.value.payment_count
        /\ \A k \in 1..Len(result.value.recent_payments) :
              \E i \in CardPaymentIdx :
                 /\ result.value.recent_payments[k].amount = Magnitude(Stored[i].amount)
                 /\ result.value.recent_payments[k].description = Stored[i].description
        /\ Cardinality(CardPaymentIdx) <= RecentPaymentCount
              => result.value.total_recent_payments = Magnitude(AmountOver(CardPaymentIdx))


SummaryReturned == call.op = "get_account_summary" /\ result.status = "ok"

\* the stored transactions that carry a date at or before "now"
HistoricalIdx == {i \in StoredIdx : HasDate(i) /\ Stored[i].date <= call.now}

HistoricalDates == {Stored[i].date : i \in HistoricalIdx}

\* C23: the date_range of get_account_summary is the earliest and the
\* latest date over exactly the transactions dated at or before "now": no
\* future-dated and no undated transaction moves either end, with no
\* transaction dated at or before "now" the range is ("N/A", "N/A"), and
\* total_transactions counts every row.
C23_SummaryRangeIsHistorical ==
    SummaryReturned =>
        /\ result.value.total_transactions = Len(Stored)
        /\ HistoricalIdx = {} => result.value.date_range = NoDateRange
        /\ HistoricalIdx # {} =>
              \E lo \in HistoricalDates, hi \in HistoricalDates :
                 /\ \A d \in HistoricalDates : lo <= d /\ d <= hi
                 /\ result.value.date_range = <<Strftime(lo), Strftime(hi)>>

\* a summary of an account that holds two past dates, a near-future, a
\* far-future and an undated transaction
C23_Witness ==
    /\ SummaryReturned
    /\ Cardinality(HistoricalDates) = 2
    /\ \E i \in StoredIdx :
          /\ Stored[i].date > call.now
          /\ Stored[i].date <= call.now + NearFutureDays * TicksPerDay
    /\ \E i \in StoredIdx : Stored[i].date > call.now + NearFutureDays * TicksPerDay
    /\ \E i \in StoredIdx : Stored[i].date = NullDate


C24_NoneAgain ==
    /\ locals.reached
    /\ locals.last_settlement_date = NoneDate
    /\ Len(locals.df) > 0


\* a negative amount whose description holds the word "payment"
IsCandidateRow(r) ==
    /\ r.amount < 0
    /\ r.description # NullStr
    /\ IsSubstring(ToLower(PatPayment), ToLower(r.description))

\* C25: the transactions calculate_expense_split sums as new expenses hold
\* no settlement candidate: with a detected settlement date D every dated
\* candidate is dated at or before D, and when no date is detected the
\* account holds no candidate at all.
C25_NoCandidateInExpenses ==
    locals.reached =>
        /\ \A k \in 1..Len(locals.expenses) : ~IsCandidateRow(locals.expenses[k])
        /\ locals.last_settlement_date >= 0 =>
              \A i \in StoredIdx :
                 (IsCandidateRow(Stored[i]) /\ HasDate(i))
                    => Stored[i].date <= locals.last_settlement_date
        /\ locals.last_settlement_date = NoneDate =>
              \A i \in StoredIdx : ~IsCandidateRow(Stored[i])

\* an expense is summed for an account that also holds a settlement payment
C25_Witness ==
    /\ ExpenseReturned
    /\ locals.reached
    /\ locals.last_settlement_date >= 0
    /\ Len(locals.expenses) = 1
    /\ \E i \in StoredIdx : IsCandidateRow(Stored[i])


\* C26: in every result of calculate_current_balance_split, total_balance
\* equals total_expenses - total_payments_credits, and neither
\* total_expenses nor total_payments_credits is negative.
C26_BalanceIsExpensesMinusCredits ==
    BalanceReturned =>
        /\ result.value.total_balance
              = FAdd(result.value.total_expenses, FNeg(result.value.total_payments_credits))
        /\ result.value.total_expenses.s = 1
        /\ result.value.total_payments_credits.s = 1


\* the four classes of the data-quality report, on the stored transactions
NearFutureIdx ==
    {i \in StoredIdx : /\ HasDate(i)
                       /\ Stored[i].date > call.now
                       /\ Stored[i].date <= call.now + 7 * TicksPerDay}

FarFutureIdx == {i \in StoredIdx : HasDate(i) /\ Stored[i].date > call.now + 7 * TicksPerDay}

InvalidIdx == {i \in StoredIdx : ~HasDate(i)}

\* C27: the data-quality report partitions the account's transactions into
\* historical (date <= now), near-future (now < date <= now + 7 days),
\* far-future (date > now + 7 days) and invalid (no date): the four counts
\* are the sizes of these classes and add up to total_transactions, and
\* far_future_transactions lists the first far-future transactions, at most
\* 5 of them.
C27_QualityReportPartitions ==
    SummaryReturned =>
        \E q \in {result.value.data_quality} :
            /\ q.total_transactions = Len(Stored)
            /\ q.historical_count = Cardinality(HistoricalIdx)
            /\ q.near_future_count = Cardinality(NearFutureIdx)
            /\ q.far_future_count = Cardinality(FarFutureIdx)
            /\ q.invalid_dates_count = Cardinality(InvalidIdx)
            /\ q.historical_count + q.near_future_count + q.far_future_count
                  + q.invalid_dates_count = q.total_transactions
            /\ Len(q.far_future_transactions) = MinOf(5, Cardinality(FarFutureIdx))
            /\ \A k \in 1..Len(q.far_future_transactions) :
                  /\ q.far_future_transactions[k].date > call.now + 7 * TicksPerDay
                  /\ \E i \in FarFutureIdx :
                        /\ q.far_future_transactions[k].amount = Stored[i].amount
                        /\ Cardinality({j \in FarFutureIdx : j <= i}) = k

\* a report on an account with a transaction in each of the four classes,
\* one of them dated exactly "now" and one exactly a week ahead
C27_Witness ==
    /\ SummaryReturned
    /\ \E i \in HistoricalIdx : Stored[i].date = call.now
    /\ \E i \in NearFutureIdx : Stored[i].date = call.now + 7 * TicksPerDay
    /\ FarFutureIdx # {}
    /\ InvalidIdx # {}
    /\ result.value.data_quality.far_future_transactions # <<>>

\* a report on six far-future transactions lists five of them
C27_SampleCapped ==
    /\ SummaryReturned
    /\ result.value.data_quality.far_future_count = 6
    /\ Len(result.value.data_quality.far_future_transactions) = 5


\* every account the command was asked for has a table with at least one row
SelectedAccountsFilled ==
    \E accts \in {AccountsToAnalyze(call.table)} :
        \A n \in 1..Len(accts) : store[accts[n]].exists /\ store[accts[n]].rows # <<>>

\* C28: given a valid percentage and a store in which the table of every
\* selected account exists and is non-empty, the analyze command runs the
\* five analyses for each selected account in order and reaches "Analysis
\* complete!" without taking the error path.
C28_AnalyzeCompletes ==
    (/\ call.op = "analyze_cmd"
     /\ ValidPercentage(call.pct)
     /\ SelectedAccountsFilled) =>
        /\ result.status = "ok"
        /\ result.value.steps = AnalyzePlan(call.table)


\* what one output line of the import command says about its table
LineHolds(line) ==
    IF line.status = "error" THEN store'[line.table] = store[line.table]
    ELSE /\ store'[line.table].exists
         /\ IsPrefix(store[line.table].rows, store'[line.table].rows)
         /\ Len(store'[line.table].rows) = Len(store[line.table].rows) + line.rows

RECURSIVE ImportedRows(_)
ImportedRows(lines) ==
    IF lines = <<>> THEN 0
    ELSE (IF Head(lines).status = "ok" THEN Head(lines).rows ELSE 0)
         + ImportedRows(Tail(lines))

\* C29: in an import that is no dry run, a file whose import fails adds no
\* row to any table and does not keep the other files from being imported;
\* every imported file appends exactly its own rows to its table, behind the
\* rows already there, equal ones included; the reported total is the sum
\* of the rows of the imported files; a dry run leaves the store unchanged.
C29_ImportPerFile ==
    [][call'.op = "import_cmd" =>
          \E out \in {result'.value} :
              /\ out.dry_run => store' = store
              /\ (out.export = "files" /\ ~out.dry_run) =>
                    /\ Len(out.lines) = 2
                    /\ \A k \in 1..Len(out.lines) : LineHolds(out.lines[k])
                    /\ out.rows_imported = ImportedRows(out.lines)
              /\ out.export # "files" => store' = store /\ out.rows_imported = 0]_vars

\* the first file failed, and the second one put its row behind an equal
\* row already stored
C29_Witness ==
    /\ call.op = "import_cmd"
    /\ ~result.value.dry_run
    /\ Len(result.value.lines) = 2
    /\ result.value.lines[1].status = "error"
    /\ result.value.lines[2].status = "ok"
    /\ result.value.rows_imported = 1
    /\ Len(store["team_beeb_checking"].rows) = 2
    /\ store["team_beeb_checking"].rows[1] = store["team_beeb_checking"].rows[2]


\* C30: when all analyses succeed, the report command writes the report
\* file at exactly the path given as --output, the default path included,
\* and its success message names that path; when an analysis fails, no
\* report file is created or overwritten.
C30_ReportWrittenAtOutput ==
    [][call'.op = "report_cmd" =>
          IF result'.value.steps = ReportPlan
          THEN /\ result'.status = "ok"
               /\ result'.value.written = call'.output
               /\ call'.output \in filesystem'.files
          ELSE filesystem'.files = filesystem.files]_vars
====
